---- MODULE Spec2Model ----
(***************************************************************************)
(* Model of the dyslexia risk screening form (App component):              *)
(* the scoring function analyzeData, the CSV upload handler                *)
(* handleCSVUpload, and the form handlers around them.                     *)
(*                                                                         *)
(* JavaScript numbers are IEEE-754 doubles.  The field values handled here *)
(* are small naturals, which doubles hold exactly, but the weights 0.15,   *)
(* 0.20 and 0.10 are not dyadic, so the weighted sum, the normalised score *)
(* and the confidence are computed below with round-to-nearest-even on a   *)
(* 53 bit significand, as the build computes them.                         *)
(***************************************************************************)
EXTENDS Integers, Sequences, FiniteSets, TLC

(***************************************************************************)
(* Natural numbers of arbitrary size: little-endian sequences of limbs in  *)
(* 0 .. Base-1 without high zero limbs (<< >> is zero).  They carry the    *)
(* 53 bit significands, which do not fit the checker's 32 bit integers.    *)
(***************************************************************************)
Base == 2^15

Pow2(n) == 2^n

RECURSIVE IntBits(_)
IntBits(n) == IF n = 0 THEN 0 ELSE 1 + IntBits(n \div 2)

LimbBits == IntBits(Base) - 1

RECURSIVE BNorm(_)
BNorm(a) ==
    IF a = << >> THEN << >>
    ELSE IF a[Len(a)] = 0 THEN BNorm(SubSeq(a, 1, Len(a) - 1))
    ELSE a

RECURSIVE BFromInt(_)
BFromInt(n) ==
    IF n = 0 THEN << >> ELSE <<n % Base>> \o BFromInt(n \div Base)

Limb(a, i) == IF i <= Len(a) THEN a[i] ELSE 0

MaxOf(x, y) == IF x >= y THEN x ELSE y

MinOf(x, y) == IF x <= y THEN x ELSE y

RECURSIVE BAddC(_, _, _, _)
BAddC(a, b, i, carry) ==
    IF i > MaxOf(Len(a), Len(b))
    THEN (IF carry = 0 THEN << >> ELSE <<carry>>)
    ELSE LET s == Limb(a, i) + Limb(b, i) + carry
         IN  <<s % Base>> \o BAddC(a, b, i + 1, s \div Base)

BAdd(a, b) == BNorm(BAddC(a, b, 1, 0))

\* a - b for a >= b
RECURSIVE BSubC(_, _, _, _)
BSubC(a, b, i, borrow) ==
    IF i > Len(a) THEN << >>
    ELSE LET d == Limb(a, i) - Limb(b, i) - borrow
         IN  IF d < 0 THEN <<d + Base>> \o BSubC(a, b, i + 1, 1)
             ELSE <<d>> \o BSubC(a, b, i + 1, 0)

BSub(a, b) == BNorm(BSubC(a, b, 1, 0))

\* -1, 0 or 1 as a < b, a = b, a > b; i runs from the high limb down
RECURSIVE BCmpFrom(_, _, _)
BCmpFrom(a, b, i) ==
    IF i = 0 THEN 0
    ELSE IF Limb(a, i) < Limb(b, i) THEN -1
    ELSE IF Limb(a, i) > Limb(b, i) THEN 1
    ELSE BCmpFrom(a, b, i - 1)

BCmp(a, b) == BCmpFrom(a, b, MaxOf(Len(a), Len(b)))

\* a * k for 0 <= k < Base
RECURSIVE BMulC(_, _, _, _)
BMulC(a, k, i, carry) ==
    IF i > Len(a)
    THEN (IF carry = 0 THEN << >> ELSE <<carry>>)
    ELSE LET p == a[i] * k + carry
         IN  <<p % Base>> \o BMulC(a, k, i + 1, p \div Base)

BMulSmall(a, k) == BNorm(BMulC(a, k, 1, 0))

\* quotient and remainder of a by k, 0 < k < Base; i runs from the high limb down
RECURSIVE BDivC(_, _, _, _)
BDivC(a, k, i, rem) ==
    IF i = 0 THEN [q |-> << >>, r |-> rem]
    ELSE LET cur  == rem * Base + a[i]
             rest == BDivC(a, k, i - 1, cur % k)
         IN  [q |-> rest.q \o <<cur \div k>>, r |-> rest.r]

BDivSmall(a, k) ==
    LET d == BDivC(a, k, Len(a), 0) IN [q |-> BNorm(d.q), r |-> d.r]

\* a * 2^n
RECURSIVE BShl(_, _)
BShl(a, n) ==
    IF n = 0 THEN a
    ELSE LET k == MinOf(n, LimbBits - 1)
         IN  BShl(BMulSmall(a, Pow2(k)), n - k)

\* a \div 2^n, with sticky = TRUE iff a nonzero bit was shifted out
RECURSIVE BShr(_, _, _)
BShr(a, n, sticky) ==
    IF n = 0 THEN [q |-> a, sticky |-> sticky]
    ELSE LET k == MinOf(n, LimbBits - 1)
             d == BDivSmall(a, Pow2(k))
         IN  BShr(d.q, n - k, sticky \/ d.r # 0)

BitLen(a) ==
    IF a = << >> THEN 0 ELSE LimbBits * (Len(a) - 1) + IntBits(a[Len(a)])

BIsOdd(a) == a # << >> /\ a[1] % 2 = 1

(***************************************************************************)
(* IEEE-754 doubles: [neg, m, e] stands for (-1)^neg * m * 2^e with m a    *)
(* 53 bit significand (2^52 <= m < 2^53), or for zero (m = << >>, e = 0).  *)
(* Every operation computes the exact result and rounds it to nearest,     *)
(* ties to even.  The values met here lie between 2^-60 and 2^10, far from *)
(* overflow and from the subnormal range, so the exponent is unbounded.    *)
(***************************************************************************)
Precision == 53   \* bits of a double's significand

FZero == [neg |-> FALSE, m |-> << >>, e |-> 0]

\* the double nearest to (-1)^neg * (m + f) * 2^e, where 0 <= f < 1 and
\* sticky = (f > 0); m # 0 has more than Precision bits when sticky
FRound(neg, m, e, sticky) ==
    IF m = << >> THEN FZero
    ELSE LET L == BitLen(m) IN
         IF L <= Precision
         THEN [neg |-> neg, m |-> BShl(m, Precision - L), e |-> e - (Precision - L)]
         ELSE LET s    == L - Precision
                  t    == BShr(m, s - 1, sticky)
                  half == BIsOdd(t.q)
                  q    == BDivSmall(t.q, 2).q
                  up   == half /\ (t.sticky \/ BIsOdd(q))
                  r    == IF up THEN BAdd(q, BFromInt(1)) ELSE q
              IN  IF BitLen(r) > Precision
                  THEN [neg |-> neg, m |-> BDivSmall(r, 2).q, e |-> e + s + 1]
                  ELSE [neg |-> neg, m |-> r, e |-> e + s]

FFromInt(n) == FRound(FALSE, BFromInt(n), 0, FALSE)

FIsZero(x) == x.m = << >>

\* x + y for x, y >= 0
FAdd(x, y) ==
    IF FIsZero(x) THEN y
    ELSE IF FIsZero(y) THEN x
    ELSE LET lo == MinOf(x.e, y.e)
         IN  FRound(FALSE, BAdd(BShl(x.m, x.e - lo), BShl(y.m, y.e - lo)), lo, FALSE)

\* x - y for x, y >= 0
FSub(x, y) ==
    IF FIsZero(y) THEN x
    ELSE IF FIsZero(x) THEN [y EXCEPT !.neg = TRUE]
    ELSE LET lo == MinOf(x.e, y.e)
             a  == BShl(x.m, x.e - lo)
             b  == BShl(y.m, y.e - lo)
             c  == BCmp(a, b)
         IN  IF c = 0 THEN FZero
             ELSE IF c > 0 THEN FRound(FALSE, BSub(a, b), lo, FALSE)
             ELSE FRound(TRUE, BSub(b, a), lo, FALSE)

\* x * k for a natural k < Base
FMulInt(x, k) == FRound(x.neg, BMulSmall(x.m, k), x.e, FALSE)

\* x / k for a natural 0 < k < 2^(LimbBits - 2): the quotient keeps at least
\* two bits below the significand, and the remainder is the sticky bit
FDivInt(x, k) ==
    LET d == BDivSmall(BShl(x.m, LimbBits), k)
    IN  FRound(x.neg, d.q, x.e - LimbBits, d.r # 0)

\* Math.abs
FAbs(x) == [x EXCEPT !.neg = FALSE]

\* -1, 0, 1 as x < y, x = y, x > y
FCmpMag(x, y) ==
    IF FIsZero(x) /\ FIsZero(y) THEN 0
    ELSE IF FIsZero(x) THEN -1
    ELSE IF FIsZero(y) THEN 1
    ELSE LET lo == MinOf(x.e, y.e)
         IN  BCmp(BShl(x.m, x.e - lo), BShl(y.m, y.e - lo))

FCmp(x, y) ==
    IF x.neg /\ ~y.neg THEN -1
    ELSE IF ~x.neg /\ y.neg THEN 1
    ELSE IF x.neg THEN FCmpMag(y, x)
    ELSE FCmpMag(x, y)

FGe(x, y) == FCmp(x, y) >= 0

FLe(x, y) == FCmp(x, y) <= 0

FLt(x, y) == FCmp(x, y) < 0

\* a decimal literal num/den, e.g. 0.15 = FLit(15, 100): the nearest double
FLit(num, den) == FDivInt(FFromInt(num), den)

(***************************************************************************)
(* The form's record and the scorer.  Field values are naturals; NaN is    *)
(* the one value that is not a number.                                     *)
(***************************************************************************)
NaN == -1

isNaN(v) == v = NaN

\* value < bound and value > bound; a comparison with NaN is false
Lt(v, bound) == ~isNaN(v) /\ v < bound

Gt(v, bound) == ~isNaN(v) /\ v > bound

\* the fields in declaration order, which is the order of features
FieldNames ==
    <<"readingSpeed", "fixationDuration", "saccadeLength",
      "phonemeErrors", "spellingErrors", "comprehensionScore">>

Fields == {FieldNames[i] : i \in 1..Len(FieldNames)}

initialFormData ==
    [readingSpeed |-> 60, fixationDuration |-> 350, saccadeLength |-> 30,
     phonemeErrors |-> 10, spellingErrors |-> 7, comprehensionScore |-> 70]

weights ==
    <<FLit(25, 100), FLit(15, 100), FLit(15, 100),
      FLit(20, 100), FLit(15, 100), FLit(10, 100)>>

thresholds ==
    [readingSpeed       |-> [low |-> 50,  high |-> 80],
     fixationDuration   |-> [low |-> 300, high |-> 400],
     saccadeLength      |-> [low |-> 20,  high |-> 35],
     phonemeErrors      |-> [low |-> 8,   high |-> 12],
     spellingErrors     |-> [low |-> 5,   high |-> 10],
     comprehensionScore |-> [low |-> 60,  high |-> 80]]

features(d) ==
    <<d.readingSpeed, d.fixationDuration, d.saccadeLength,
      d.phonemeErrors, d.spellingErrors, d.comprehensionScore>>

\* the switch of the forEach body; index counts from 1 here
score(index, value) ==
    CASE index = 1 ->
           IF Lt(value, thresholds.readingSpeed.low) THEN 2
           ELSE IF Lt(value, thresholds.readingSpeed.high) THEN 1 ELSE 0
      [] index = 2 ->
           IF Gt(value, thresholds.fixationDuration.high) THEN 2
           ELSE IF Gt(value, thresholds.fixationDuration.low) THEN 1 ELSE 0
      [] index = 3 ->
           IF Lt(value, thresholds.saccadeLength.low) THEN 2
           ELSE IF Lt(value, thresholds.saccadeLength.high) THEN 1 ELSE 0
      [] index = 4 ->
           IF Gt(value, thresholds.phonemeErrors.high) THEN 2
           ELSE IF Gt(value, thresholds.phonemeErrors.low) THEN 1 ELSE 0
      [] index = 5 ->
           IF Gt(value, thresholds.spellingErrors.high) THEN 2
           ELSE IF Gt(value, thresholds.spellingErrors.low) THEN 1 ELSE 0
      [] index = 6 ->
           IF Lt(value, thresholds.comprehensionScore.low) THEN 2
           ELSE IF Lt(value, thresholds.comprehensionScore.high) THEN 1 ELSE 0

\* riskScore after the forEach has visited features 1..n:
\* riskScore += score * weight, starting from 0
RECURSIVE weightedSum(_, _)
weightedSum(fs, n) ==
    IF n = 0 THEN FZero
    ELSE FAdd(weightedSum(fs, n - 1), FMulInt(weights[n], score(n, fs[n])))

\* mutant of normalize: the division by the largest per-field score is lost
normalizeNoHalving(riskScore) == FMulInt(riskScore, 10)

\* (riskScore / 2) * 10
normalize(riskScore) == FMulInt(FDivInt(riskScore, 2), 10)

\* mutant of predictionOf: the boundary is excluded (> for >=)
predictionOfStrict(normalizedScore) ==
    IF FCmp(normalizedScore, FFromInt(5)) > 0 THEN 1 ELSE 0

\* normalizedScore >= 5 ? 1 : 0
predictionOf(normalizedScore) ==
    IF FGe(normalizedScore, FFromInt(5)) THEN 1 ELSE 0

\* mutant of confidenceOf: the distance is scaled by the range 10, not by 5
confidenceOfRange(normalizedScore) ==
    FMulInt(FSub(FFromInt(1),
                 FDivInt(FAbs(FSub(FFromInt(5), normalizedScore)), 10)),
            100)

\* (1 - Math.abs(5 - normalizedScore) / 5) * 100
confidenceOf(normalizedScore) ==
    FMulInt(FSub(FFromInt(1),
                 FDivInt(FAbs(FSub(FFromInt(5), normalizedScore)), 5)),
            100)

\* mutant of lowRiskLabel: a value on a threshold is put in the riskier class
lowRiskLabelInclusive(v, t) ==
    IF ~isNaN(v) /\ v <= t.low THEN "High"
    ELSE IF ~isNaN(v) /\ v <= t.high THEN "Medium" ELSE "Low"

lowRiskLabel(v, t) ==
    IF Lt(v, t.low) THEN "High" ELSE IF Lt(v, t.high) THEN "Medium" ELSE "Low"

highRiskLabel(v, t) ==
    IF Gt(v, t.high) THEN "High" ELSE IF Gt(v, t.low) THEN "Medium" ELSE "Low"

detailsOf(fs) ==
    [readingSpeedRisk  |-> lowRiskLabel(fs[1], thresholds.readingSpeed),
     fixationRisk      |-> highRiskLabel(fs[2], thresholds.fixationDuration),
     saccadeRisk       |-> lowRiskLabel(fs[3], thresholds.saccadeLength),
     phonemeRisk       |-> highRiskLabel(fs[4], thresholds.phonemeErrors),
     spellingRisk      |-> highRiskLabel(fs[5], thresholds.spellingErrors),
     comprehensionRisk |-> lowRiskLabel(fs[6], thresholds.comprehensionScore)]

analyzeData(dataToAnalyze) ==
    LET fs              == features(dataToAnalyze)
        normalizedScore == normalize(weightedSum(fs, Len(fs)))
    IN  [prediction |-> predictionOf(normalizedScore),
         riskScore  |-> normalizedScore,
         confidence |-> confidenceOf(normalizedScore),
         details    |-> detailsOf(fs)]

(***************************************************************************)
(* Strings.  A string is a sequence of characters.  The characters are the *)
(* separators, the decimal digits, and one character for each word a file  *)
(* is built from (a label in lower or in mixed case, a junk word), so that *)
(* 'reading speed' is the one-character string <<"reading speed">>.        *)
(***************************************************************************)
Digits == <<"0", "1", "2", "3", "4", "5", "6", "7", "8", "9">>

isDigit(c) == \E i \in 1..Len(Digits) : Digits[i] = c

digitValue(c) == (CHOOSE i \in 1..Len(Digits) : Digits[i] = c) - 1

isSpace(c) == c \in {" ", "\r", "\n"}

expectedHeaders ==
    <<"reading speed", "fixation duration", "saccade length",
      "phoneme errors", "spelling errors", "comprehension score">>

\* the mixed-case spelling of each label, and what toLowerCase makes of it
MixedCase ==
    <<"Reading Speed", "Fixation Duration", "Saccade Length",
      "Phoneme Errors", "Spelling Errors", "Comprehension Score">>

lowerChar(c) ==
    IF \E i \in 1..Len(MixedCase) : MixedCase[i] = c
    THEN expectedHeaders[CHOOSE i \in 1..Len(MixedCase) : MixedCase[i] = c]
    ELSE c

\* String.prototype.toLowerCase
toLowerCase(str) == [i \in 1..Len(str) |-> lowerChar(str[i])]

RECURSIVE trimStart(_)
trimStart(str) ==
    IF str # << >> /\ isSpace(str[1]) THEN trimStart(Tail(str)) ELSE str

RECURSIVE trimEnd(_)
trimEnd(str) ==
    IF str # << >> /\ isSpace(str[Len(str)])
    THEN trimEnd(SubSeq(str, 1, Len(str) - 1))
    ELSE str

\* String.prototype.trim
trim(str) == trimEnd(trimStart(str))

\* String.prototype.split(sep) for a one-character separator: the pieces
\* between the separators; the empty string splits into one empty piece
RECURSIVE splitFrom(_, _, _)
splitFrom(str, sep, piece) ==
    IF str = << >> THEN <<piece>>
    ELSE IF str[1] = sep THEN <<piece>> \o splitFrom(Tail(str), sep, << >>)
    ELSE splitFrom(Tail(str), sep, Append(piece, str[1]))

split(str, sep) == splitFrom(str, sep, << >>)

\* Array.prototype.indexOf, counting from 1; 0 when absent (-1 in the code)
RECURSIVE indexFrom(_, _, _)
indexFrom(arr, x, i) ==
    IF i > Len(arr) THEN 0
    ELSE IF arr[i] = x THEN i
    ELSE indexFrom(arr, x, i + 1)

indexOf(arr, x) == indexFrom(arr, x, 1)

\* what arr[i] reads outside the array; no file holds this word
undefined == <<"undefined">>

at(arr, i) == IF i \in 1..Len(arr) THEN arr[i] ELSE undefined

RECURSIVE decimal(_, _)
decimal(str, acc) ==
    IF str = << >> THEN acc
    ELSE decimal(Tail(str), 10 * acc + digitValue(str[1]))

\* Number(str): surrounding white space is dropped; the empty string is 0,
\* a run of digits is its decimal value, anything else is not a number
Number(str) ==
    LET t == trim(str) IN
    IF t = << >> THEN 0
    ELSE IF \A i \in 1..Len(t) : isDigit(t[i]) THEN decimal(t, 0)
    ELSE NaN

\* a || b on numbers: b when a is falsy (0 or NaN)
orElse(a, b) == IF isNaN(a) \/ a = 0 THEN b ELSE a

(***************************************************************************)
(* The body of handleCSVUpload's try block from the text of the file to    *)
(* newFormData: either the record, or the message of the Error thrown.     *)
(* A message is a sequence of its parts.                                   *)
(***************************************************************************)
TooFewLines == <<"CSV file must contain a header row and at least one data row">>

InvalidFormat ==
    <<"Invalid CSV format. Please ensure the headers match the required format.">>

\* key.replace(/([A-Z])/g, ' $1').toLowerCase(): 'readingSpeed' becomes
\* 'reading speed', which is the label at the key's place in expectedHeaders
keyWords(key) ==
    expectedHeaders[CHOOSE i \in 1..Len(FieldNames) : FieldNames[i] = key]

InvalidNumber(key) == <<"Invalid number in ", keyWords(key)>>

\* what file.text() rejects with when the file cannot be read
NotReadable == <<"NotReadableError">>

\* mutant of isValidFormat: one recognized label is enough (some for every)
isValidFormatSome(header) ==
    \E k \in 1..Len(expectedHeaders) :
        \E i \in 1..Len(header) : trim(header[i]) = <<expectedHeaders[k]>>

\* expectedHeaders.every(h => header.some(csvHeader => csvHeader.trim() === h))
isValidFormat(header) ==
    \A k \in 1..Len(expectedHeaders) :
        \E i \in 1..Len(header) : trim(header[i]) = <<expectedHeaders[k]>>

\* data[header.indexOf(label)]
cellOf(header, data, label) == at(data, indexOf(header, <<label>>))

\* mutant of fieldValue: the default is not substituted
fieldValueNoDefault(cell, key) == Number(cell)

\* Number(cell) || initialFormData[key]
fieldValue(cell, key) == orElse(Number(cell), initialFormData[key])

newFormDataOf(header, data) ==
    [readingSpeed       |-> fieldValue(cellOf(header, data, "reading speed"), "readingSpeed"),
     fixationDuration   |-> fieldValue(cellOf(header, data, "fixation duration"), "fixationDuration"),
     saccadeLength      |-> fieldValue(cellOf(header, data, "saccade length"), "saccadeLength"),
     phonemeErrors      |-> fieldValue(cellOf(header, data, "phoneme errors"), "phonemeErrors"),
     spellingErrors     |-> fieldValue(cellOf(header, data, "spelling errors"), "spellingErrors"),
     comprehensionScore |-> fieldValue(cellOf(header, data, "comprehension score"), "comprehensionScore")]

\* Object.entries(newFormData).forEach: the first key, in declaration order,
\* whose value is NaN; 0 when there is none
firstNaN(rec) ==
    IF \E i \in 1..Len(FieldNames) : isNaN(rec[FieldNames[i]])
    THEN CHOOSE i \in 1..Len(FieldNames) :
            /\ isNaN(rec[FieldNames[i]])
            /\ \A j \in 1..(i - 1) : ~isNaN(rec[FieldNames[j]])
    ELSE 0

minLines == 2   \* lines.length < 2

thrown(message) == [ok |-> FALSE, message |-> message]

parseCSV(text) ==
    LET lines == split(trim(text), "\n") IN
    IF Len(lines) < minLines THEN thrown(TooFewLines)
    ELSE LET header == split(toLowerCase(lines[1]), ",")
             data   == split(lines[2], ",")
         IN  IF ~isValidFormat(header) THEN thrown(InvalidFormat)
             ELSE LET newFormData == newFormDataOf(header, data)
                      bad         == firstNaN(newFormData)
                  IN  IF bad # 0 THEN thrown(InvalidNumber(FieldNames[bad]))
                      ELSE [ok |-> TRUE, newFormData |-> newFormData]

(***************************************************************************)
(* The inputs: the files a user uploads and the slider positions.          *)
(***************************************************************************)
MaxPending == 2      \* uploads whose file is still being read
MovedSliders == 1    \* sliders the user moves, counted in field order
MaxExtraRows == 1    \* data rows of a file after the first one
Margin == 1          \* how far from a threshold the values beside it lie

RECURSIVE toStr(_)
toStr(n) ==
    IF n < 10 THEN <<Digits[n + 1]>>
    ELSE toStr(n \div 10) \o <<Digits[(n % 10) + 1]>>

RECURSIVE join(_, _)
join(pieces, sep) ==
    IF pieces = << >> THEN << >>
    ELSE IF Len(pieces) = 1 THEN pieces[1]
    ELSE pieces[1] \o sep \o join(Tail(pieces), sep)

\* a record none of whose values is a default or zero
sampleRecord ==
    [readingSpeed |-> 45, fixationDuration |-> 410, saccadeLength |-> 15,
     phonemeErrors |-> 13, spellingErrors |-> 11, comprehensionScore |-> 55]

plainHeader == [i \in 1..Len(expectedHeaders) |-> <<expectedHeaders[i]>>]

\* the labels in mixed case and in reverse order
mixedHeader ==
    [i \in 1..Len(MixedCase) |-> <<MixedCase[Len(MixedCase) + 1 - i]>>]

\* an unrelated first column
extraHeader == <<(<<"id">>)>> \o plainHeader

\* a blank after each comma
paddedHeader ==
    [i \in 1..Len(expectedHeaders) |->
        IF i = 1 THEN <<expectedHeaders[i]>> ELSE <<" ", expectedHeaders[i]>>]

\* the header without its k-th label
missingHeader(k) ==
    SubSeq(plainHeader, 1, k - 1) \o SubSeq(plainHeader, k + 1, Len(plainHeader))

FullHeaders == {plainHeader, mixedHeader, extraHeader, paddedHeader}

\* the row under header h that spells rec
rowOf(h, rec) ==
    [i \in 1..Len(h) |->
        LET k == IF Len(trim(h[i])) = 1
                 THEN indexOf(expectedHeaders, trim(toLowerCase(h[i]))[1])
                 ELSE 0
        IN  IF k = 0 THEN <<"1">> ELSE toStr(rec[FieldNames[k]])]

\* cells that are not a plain non-zero number
OddCells == {<<"abc">>, <<"0">>, << >>, <<" ", "7", " ">>}

\* the sample row, the sample row with one odd cell, and its proper prefixes
RowsUnder(h) ==
    LET base == rowOf(h, sampleRecord) IN
    {base}
    \cup {[base EXCEPT ![c] = v] : c \in 1..Len(h), v \in OddCells}
    \cup {SubSeq(base, 1, k) : k \in 0..(Len(h) - 1)}

Eols == {<<"\n">>, <<"\r", "\n">>}

\* a row that must never be read: the rows after the first data row
laterRow == [i \in 1..Len(expectedHeaders) |-> <<"9">>]

fileOf(h, row, extra, eol) ==
    join(<<join(h, <<",">>), join(row, <<",">>)>>
            \o [i \in 1..extra |-> join(laterRow, <<",">>)],
         eol)

\* files whose header holds every label
FullFiles ==
    UNION {{fileOf(h, row, extra, eol) :
                row \in RowsUnder(h), extra \in 0..MaxExtraRows, eol \in Eols} :
           h \in FullHeaders}

\* files whose header lacks one label
\* files whose header lacks one label, with and without a bad first value
LackingFiles ==
    {fileOf(missingHeader(k), [rowOf(missingHeader(k), sampleRecord) EXCEPT ![1] = v], 0, eol) :
        k \in 1..Len(expectedHeaders), v \in {toStr(1), <<"abc">>}, eol \in Eols}

sampleFile == fileOf(plainHeader, rowOf(plainHeader, sampleRecord), 0, <<"\n">>)

headerOnly == join(plainHeader, <<",">>)

\* the empty file, a header alone (with and without a line end), and the
\* sample file after a blank line and before one
EdgeFiles ==
    {<< >>, headerOnly, headerOnly \o <<"\n">>, headerOnly \o <<"\r", "\n">>,
     <<"\n">> \o sampleFile, sampleFile \o <<"\n">>}

ParseTexts == FullFiles \cup LackingFiles \cup EdgeFiles

\* the files uploaded while the rest of the form is used
UiTexts ==
    {sampleFile,
     fileOf(missingHeader(3), rowOf(missingHeader(3), sampleRecord), 0, <<"\n">>),
     headerOnly}

\* min and max of a range input
sliderMin == 0

sliderMax(key) == IF key = "comprehensionScore" THEN 100 ELSE 500

\* a field whose low values are the risky ones
lowIsRisk(key) == key \in {"readingSpeed", "saccadeLength", "comprehensionScore"}

\* every slider at its riskiest end
riskiestRecord ==
    [key \in Fields |-> IF lowIsRisk(key) THEN sliderMin ELSE sliderMax(key)]

\* each field below, on and above each of its thresholds
GridValues(key) ==
    {thresholds[key].low - Margin, thresholds[key].low,
     thresholds[key].high, thresholds[key].high + Margin}

ScorerRecords ==
    [readingSpeed       : GridValues("readingSpeed"),
     fixationDuration   : GridValues("fixationDuration"),
     saccadeLength      : GridValues("saccadeLength"),
     phonemeErrors      : GridValues("phonemeErrors"),
     spellingErrors     : GridValues("spellingErrors"),
     comprehensionScore : GridValues("comprehensionScore")]
    \cup {initialFormData, riskiestRecord}

\* the sliders the user moves and where to: each to its minimum
SliderNames == {FieldNames[i] : i \in 1..MovedSliders}

SliderValues == {sliderMin}

(***************************************************************************)
(* The component's state.                                                  *)
(*   formData, result, activeTab, inputMethod, csvError: the useState      *)
(*     cells; null is << >> and a value v is <<v>>                         *)
(*   reading: the texts of the files whose file.text() is pending, in the  *)
(*     order their uploads began                                           *)
(*   micro: the handler suspended at `await analyzeData(...)` with its     *)
(*     locals, or null.  analyzeData is pure and its argument is fixed by  *)
(*     the call, so its value is taken when the handler resumes, which is  *)
(*     in the microtask checkpoint of the task that suspended it, before   *)
(*     any other event is handled.                                         *)
(***************************************************************************)
VARIABLES formData, result, activeTab, inputMethod, csvError, reading, micro

vars == <<formData, result, activeTab, inputMethod, csvError, reading, micro>>

null == << >>

Init ==
    /\ formData = initialFormData
    /\ result = null
    /\ activeTab = "input"
    /\ inputMethod = "manual"
    /\ csvError = null
    /\ reading = << >>
    /\ micro = null

\* the form and the file input are rendered on the input tab only
manualShown == activeTab = "input" /\ inputMethod = "manual"

csvShown == activeTab = "input" /\ inputMethod = "csv"

removeAt(seq, i) == SubSeq(seq, 1, i - 1) \o SubSeq(seq, i + 1, Len(seq))

\* a slider is moved
handleInputChange(name, value) ==
    /\ micro = null
    /\ manualShown
    /\ formData' = [formData EXCEPT ![name] = value]
    /\ UNCHANGED <<result, activeTab, inputMethod, csvError, reading, micro>>

\* a file is chosen: handleCSVUpload up to `await file.text()`
handleCSVUpload(text) ==
    /\ micro = null
    /\ csvShown
    /\ Len(reading) < MaxPending
    /\ csvError' = null
    /\ reading' = Append(reading, text)
    /\ UNCHANGED <<formData, result, activeTab, inputMethod, micro>>

\* the file dialog is closed with no file: e.target.files?.[0] is undefined
handleCSVUploadNoFile ==
    /\ micro = null
    /\ csvShown
    /\ csvError' = null
    /\ UNCHANGED <<formData, result, activeTab, inputMethod, reading, micro>>

\* mutant of fileRead: the catch block also drops the result that is shown
fileReadClearing(i) ==
    /\ micro = null
    /\ i \in 1..Len(reading)
    /\ LET text   == reading[i]
           parsed == parseCSV(text)
       IN  /\ reading' = removeAt(reading, i)
           /\ IF parsed.ok
              THEN /\ formData' = parsed.newFormData
                   /\ micro' = <<[handler       |-> "handleCSVUpload",
                                  text          |-> text,
                                  dataToAnalyze |-> parsed.newFormData]>>
                   /\ UNCHANGED <<csvError, result>>
              ELSE /\ csvError' = <<parsed.message>>
                   /\ result' = null
                   /\ UNCHANGED <<formData, micro>>
    /\ UNCHANGED <<activeTab, inputMethod>>

\* file.text() of the i-th pending upload resolves: handleCSVUpload from the
\* split to `await analyzeData(newFormData)`, or to the catch block
fileRead(i) ==
    /\ micro = null
    /\ i \in 1..Len(reading)
    /\ LET text   == reading[i]
           parsed == parseCSV(text)
       IN  /\ reading' = removeAt(reading, i)
           /\ IF parsed.ok
              THEN /\ formData' = parsed.newFormData
                   /\ micro' = <<[handler       |-> "handleCSVUpload",
                                  text          |-> text,
                                  dataToAnalyze |-> parsed.newFormData]>>
                   /\ UNCHANGED csvError
              ELSE /\ csvError' = <<parsed.message>>
                   /\ UNCHANGED <<formData, micro>>
    /\ UNCHANGED <<result, activeTab, inputMethod>>

\* file.text() of the i-th pending upload rejects: the catch block
fileReadFails(i) ==
    /\ micro = null
    /\ i \in 1..Len(reading)
    /\ reading' = removeAt(reading, i)
    /\ csvError' = <<NotReadable>>
    /\ UNCHANGED <<formData, result, activeTab, inputMethod, micro>>

\* the form is submitted: handleSubmit up to `await analyzeData()`
handleSubmit ==
    /\ micro = null
    /\ manualShown
    /\ micro' = <<[handler       |-> "handleSubmit",
                   text          |-> << >>,
                   dataToAnalyze |-> formData]>>
    /\ UNCHANGED <<formData, result, activeTab, inputMethod, csvError, reading>>

\* the suspended handler resumes: setResult, setActiveTab('results')
resume ==
    /\ micro # null
    /\ result' = <<analyzeData(micro[1].dataToAnalyze)>>
    /\ activeTab' = "results"
    /\ micro' = null
    /\ UNCHANGED <<formData, inputMethod, csvError, reading>>

\* a tab button; the Results button is disabled while there is no result
setActiveTab(tab) ==
    /\ micro = null
    /\ tab = "results" => result # null
    /\ activeTab' = tab
    /\ UNCHANGED <<formData, result, inputMethod, csvError, reading, micro>>

\* an input method button, rendered on the input tab
setInputMethod(method) ==
    /\ micro = null
    /\ activeTab = "input"
    /\ inputMethod' = method
    /\ UNCHANGED <<formData, result, activeTab, csvError, reading, micro>>

Next ==
    \/ \E name \in SliderNames, value \in SliderValues : handleInputChange(name, value)
    \/ \E text \in UiTexts : handleCSVUpload(text)
    \/ handleCSVUploadNoFile
    \/ \E i \in 1..MaxPending : fileRead(i)
    \/ \E i \in 1..MaxPending : fileReadFails(i)
    \/ handleSubmit
    \/ resume
    \/ \E tab \in {"input", "results"} : setActiveTab(tab)
    \/ \E method \in {"manual", "csv"} : setInputMethod(method)

Spec == Init /\ [][Next]_vars


(***************************************************************************)
(* The scorer alone: the form holds any record of ScorerRecords, which the *)
(* sliders can set, and is submitted.                                      *)
(***************************************************************************)
InitScorer ==
    /\ formData \in ScorerRecords
    /\ result = null
    /\ activeTab = "input"
    /\ inputMethod = "manual"
    /\ csvError = null
    /\ reading = << >>
    /\ micro = null

NextScorer ==
    \/ handleSubmit
    \/ resume

SpecScorer == InitScorer /\ [][NextScorer]_vars

(***************************************************************************)
(* One upload alone: a file of ParseTexts has just been chosen in the      *)
(* freshly opened form.                                                    *)
(***************************************************************************)
InitParse ==
    /\ formData = initialFormData
    /\ result = null
    /\ activeTab = "input"
    /\ inputMethod = "csv"
    /\ csvError = null
    /\ reading \in {<<text>> : text \in ParseTexts}
    /\ micro = null

NextParse ==
    \/ \E i \in 1..MaxPending : fileRead(i)
    \/ \E i \in 1..MaxPending : fileReadFails(i)
    \/ resume

SpecParse == InitParse /\ [][NextParse]_vars

(***************************************************************************)
(* Properties of the scorer, under SpecScorer.  There formData never       *)
(* changes, so a result that is held is the analysis of formData.          *)
(***************************************************************************)
analysed == result # null

held == result[1]

\* exact arithmetic on m * 2^e, without rounding, to state what a double is
\* compared with: |x - y| for x, y >= 0, and x * k
exactAbsDiff(x, y) ==
    LET lo == MinOf(x.e, y.e)
        a  == BShl(x.m, x.e - lo)
        b  == BShl(y.m, y.e - lo)
    IN  [neg |-> FALSE,
         m   |-> IF BCmp(a, b) >= 0 THEN BSub(a, b) ELSE BSub(b, a),
         e   |-> lo]

exactTimes(x, k) == [x EXCEPT !.m = BMulSmall(x.m, k)]

exactEq(x, y) == x.neg = y.neg /\ FCmpMag(x, y) = 0

\* C1: for every record whose six fields are numbers, the returned
\* riskScore lies in [0, 10] and the returned confidence in [0, 100].
C1_ScoreAndConfidenceInRange ==
    analysed =>
        /\ FGe(held.riskScore, FZero) /\ FLe(held.riskScore, FFromInt(10))
        /\ FGe(held.confidence, FZero) /\ FLe(held.confidence, FFromInt(100))

\* C1 witness: both ends of both ranges are met (riskiest record: score 10,
\* confidence 0; the default record: score 5, confidence 100).
C1_Witness ==
    /\ analysed
    /\ formData = riskiestRecord
    /\ held.riskScore = FFromInt(10)
    /\ held.confidence = FZero

\* C2: prediction is 1 exactly when the returned riskScore is >= 5, the
\* value 5 included, and 0 otherwise.
C2_PredictionIffScoreAtLeastFive ==
    analysed =>
        /\ held.prediction \in {0, 1}
        /\ held.prediction = 1 <=> FGe(held.riskScore, FFromInt(5))

\* C2 witness: a result whose riskScore is exactly 5, predicted 1.
C2_Witness ==
    /\ analysed
    /\ held.riskScore = FFromInt(5)
    /\ held.prediction = 1

\* the per-field score as the table of thresholds and directions states it
tableScore(key, value) ==
    IF lowIsRisk(key)
    THEN (IF value < thresholds[key].low THEN 2
          ELSE IF value < thresholds[key].high THEN 1 ELSE 0)
    ELSE (IF value > thresholds[key].high THEN 2
          ELSE IF value > thresholds[key].low THEN 1 ELSE 0)

\* the weights in hundredths
weightPercent == <<25, 15, 15, 20, 15, 10>>

RECURSIVE percentSum(_, _)
percentSum(rec, n) ==
    IF n = 0 THEN 0
    ELSE percentSum(rec, n - 1)
         + weightPercent[n] * tableScore(FieldNames[n], rec[FieldNames[n]])

\* 5 * sum of weight * score = percentSum / 20, a multiple of 1/4 and so a double
fiveTimesWeightedSum(rec) == FLit(percentSum(rec, Len(FieldNames)), 20)

\* C3: the returned riskScore is 5 times the weighted sum of the six
\* per-field scores of the threshold table; the default record gives
\* riskScore 5, prediction 1, confidence 100, and the riskiest record gives
\* riskScore 10, prediction 1, confidence 0.
C3_ScoreIsFiveTimesWeightedSum ==
    analysed =>
        /\ held.riskScore = fiveTimesWeightedSum(formData)
        /\ formData = initialFormData =>
              /\ held.riskScore = FFromInt(5)
              /\ held.prediction = 1
              /\ held.confidence = FFromInt(100)
        /\ formData = riskiestRecord =>
              /\ held.riskScore = FFromInt(10)
              /\ held.prediction = 1
              /\ held.confidence = FZero

\* 100 - 20 * |5 - riskScore|, exactly
linearConfidence(riskScore) ==
    exactAbsDiff(FFromInt(100),
                 exactTimes(exactAbsDiff(FFromInt(5), riskScore), 20))

\* 2^-46, about 1.4e-14
roundingTolerance == [neg |-> FALSE, m |-> BFromInt(1), e |-> -46]

confidencePeaksAtFive ==
    /\ held.confidence = FFromInt(100) <=> held.riskScore = FFromInt(5)
    /\ FLe(held.confidence, FFromInt(100))
    /\ held.riskScore \in {FZero, FFromInt(10)} => held.confidence = FZero

\* C4 as stated: confidence is 100 exactly when riskScore = 5 and below 100
\* otherwise, 0 when riskScore is 0 or 10, and equal to the linear law
\* 100 - 20 * |5 - riskScore|.
C4_ConfidenceExactlyLinear ==
    analysed =>
        /\ confidencePeaksAtFive
        /\ exactEq(held.confidence, linearConfidence(held.riskScore))

\* C4 as amended: confidence is 100 exactly when riskScore = 5 and below 100
\* otherwise, 0 when riskScore is 0 or 10, and within 2^-46 of the linear
\* law 100 - 20 * |5 - riskScore| (the three roundings of the formula).
C4_ConfidenceLinearUpToRounding ==
    analysed =>
        /\ confidencePeaksAtFive
        /\ ~held.confidence.neg
        /\ FCmpMag(exactAbsDiff(held.confidence, linearConfidence(held.riskScore)),
                   roundingTolerance) <= 0

\* C4 witness: a result off the peak whose confidence misses the linear law.
C4_Witness ==
    /\ analysed
    /\ held.riskScore # FFromInt(5)
    /\ ~exactEq(held.confidence, linearConfidence(held.riskScore))

detailKeys ==
    <<"readingSpeedRisk", "fixationRisk", "saccadeRisk",
      "phonemeRisk", "spellingRisk", "comprehensionRisk">>

levelOf(s) == IF s = 0 THEN "Low" ELSE IF s = 1 THEN "Medium" ELSE "High"

\* C5: for each field the label in details agrees with the score the field
\* contributed to the weighted sum: Low with 0, Medium with 1, High with 2.
C5_LabelAgreesWithScore ==
    analysed =>
        \A i \in 1..Len(FieldNames) :
            held.details[detailKeys[i]] = levelOf(score(i, features(formData)[i]))

\* C5 witness: a result for a record with values lying on thresholds.
C5_Witness ==
    /\ analysed
    /\ formData.readingSpeed = thresholds.readingSpeed.low
    /\ formData.fixationDuration = thresholds.fixationDuration.high
    /\ held.details.readingSpeedRisk = "Medium"
    /\ held.details.fixationRisk = "Medium"

(***************************************************************************)
(* Properties of the upload.  What a claim says of a file is read off the  *)
(* file's text with the definitions below; the header line is the first    *)
(* line that holds any text, and a field's column is the first column      *)
(* whose cell, in lower case and trimmed, is the field's label.            *)
(***************************************************************************)
lineCount(text) ==
    IF text = << >> THEN 0
    ELSE Cardinality({i \in 1..Len(text) : text[i] = "\n"})
         + (IF text[Len(text)] = "\n" THEN 0 ELSE 1)

linesOf(text) == split(trim(text), "\n")

headerCells(text) == split(split(trimStart(text), "\n")[1], ",")

dataCells(text) == split(linesOf(text)[2], ",")

hasLabel(cell, k) == trim(toLowerCase(cell)) = <<expectedHeaders[k]>>

\* the column of the k-th label, 0 when the header lacks it
columnOf(text, k) ==
    LET h == headerCells(text) IN
    IF \E i \in 1..Len(h) : hasLabel(h[i], k)
    THEN CHOOSE i \in 1..Len(h) :
            hasLabel(h[i], k) /\ \A j \in 1..(i - 1) : ~hasLabel(h[j], k)
    ELSE 0

lacksLabel(text) == \E k \in 1..Len(expectedHeaders) : columnOf(text, k) = 0

\* a header with every label above a data line
wellHeaded(text) == Len(linesOf(text)) >= 2 /\ ~lacksLabel(text)

\* the data value in the column of the k-th label
valueAt(text, k) == at(dataCells(text), columnOf(text, k))

\* the data value the upload converts for the k-th field
valueRead(text, k) ==
    cellOf(split(toLowerCase(linesOf(text)[1]), ","), dataCells(text), expectedHeaders[k])

FormatErrors == {<<TooFewLines>>, <<InvalidFormat>>}

\* the upload of micro has been read and accepted, and waits for its analysis
accepted == micro # null /\ micro[1].handler = "handleCSVUpload"

\* C6: an upload whose text has fewer than two lines, or whose header lacks
\* one of the six labels, ends in a format error and sets neither formData
\* nor result (no value of it reaches the analysis).
C6_BadFileIsFormatError ==
    [][\A i \in 1..Len(reading) :
          (fileRead(i) /\ (lineCount(reading[i]) < 2 \/ lacksLabel(reading[i])))
          => /\ csvError' \in FormatErrors
             /\ micro' = null
             /\ UNCHANGED <<formData, result, activeTab>>]_vars

\* C6 witness: an upload has ended with the header's format error and no
\* record or result came of it.
C6_Witness ==
    /\ csvError = <<InvalidFormat>>
    /\ reading = << >>
    /\ formData = initialFormData
    /\ result = null

\* a step in which an upload ends without reaching the analysis
uploadFails == Len(reading') < Len(reading) /\ micro' = null

\* a step in which an upload begins
uploadBegins == Len(reading') > Len(reading)

\* C7: no step of an upload that fails changes formData, result or
\* activeTab: neither its beginning nor its failure, which sets csvError
\* and nothing else.
C7_FailedUploadChangesOnlyError ==
    [][/\ uploadBegins => UNCHANGED <<formData, result, activeTab, inputMethod>>
       /\ uploadFails => /\ csvError' # null
                         /\ UNCHANGED <<formData, result, activeTab, inputMethod>>]_vars

\* C7 witness: an upload has failed while an earlier record and its result
\* are held, and they still are.
C7_Witness ==
    /\ csvError # null
    /\ csvError \in FormatErrors
    /\ result # null
    /\ formData = sampleRecord
    /\ result[1] = analyzeData(sampleRecord)

\* C8: under a header with all six labels, a value that is missing or is
\* not a number never fails the upload: the upload is accepted with the
\* field at its default, and no 'Invalid number in ...' error is ever set.
C8_BadValueTakesDefault ==
    /\ [](\A i \in 1..Len(FieldNames) : csvError # <<InvalidNumber(FieldNames[i])>>)
    /\ [][\A i \in 1..Len(reading) :
            (fileRead(i) /\ wellHeaded(reading[i]))
            => /\ UNCHANGED csvError
               /\ micro' # null
               /\ \A k \in 1..Len(FieldNames) :
                     isNaN(Number(valueAt(reading[i], k)))
                     => formData'[FieldNames[k]] = initialFormData[FieldNames[k]]]_vars

\* C8 witness: an accepted upload one of whose values is missing or not a
\* number, with the field at its default and no error.
C8_Witness ==
    /\ accepted
    /\ csvError = null
    /\ \E k \in 1..Len(FieldNames) :
          /\ isNaN(Number(valueAt(micro[1].text, k)))
          /\ formData[FieldNames[k]] = initialFormData[FieldNames[k]]

\* C9: in an accepted upload a field holds its default if and only if the
\* value converted for it is not a number; every value that converts to a
\* number, 0 included, is stored unchanged.  (A blank cell, which holds no
\* value and yet converts to 0, is left aside.)
C9_DefaultOnlyForNaN ==
    accepted =>
        \A k \in 1..Len(FieldNames) :
            LET cell == valueRead(micro[1].text, k)
                v    == Number(cell)
            IN  trim(cell) # << >> =>
                    formData[FieldNames[k]] =
                        IF isNaN(v) THEN initialFormData[FieldNames[k]] ELSE v

\* C10: in an accepted upload each field is read from the data cell in the
\* column of its label, whatever the case, order and padding of the header
\* cells and whatever other columns there are.
C10_FieldReadFromLabelColumn ==
    accepted =>
        \A k \in 1..Len(FieldNames) :
            formData[FieldNames[k]]
                = fieldValue(valueAt(micro[1].text, k), FieldNames[k])

\* A step that initiates a submit: the form's data goes to the analysis.
submitBegins ==
    micro = null /\ micro' # null /\ micro'[1].handler = "handleSubmit"

\* An upload is between its start and its completion: its file is being read.
uploadPending == reading # << >>

\* C11: analysis runs never overlap: no upload and no submit is initiated
\* while an earlier upload is still between its start and its completion.
C11_NoRunStartsDuringUpload ==
    [][(uploadBegins \/ submitBegins) => ~uploadPending]_vars

====
